---- MODULE Spec2Model ----
(***************************************************************************)
(* Verification model of the F1 ingestion pipeline:                        *)
(*   ingest/ergast_client.py      ErgastClient._get_json, fetch_all        *)
(*   ingest/pull_raw_ergast.py    write_json, main                         *)
(*   clean/build_clean_tables.py  _extract_table, build_dim_*, build_fct_* *)
(*   clean/build_modeling_table.py compute_is_dnf, main                    *)
(*                                                                         *)
(* Python dicts are functions with a string domain (a missing key is a key *)
(* outside DOMAIN), lists are sequences, None is the value NoneVal.        *)
(***************************************************************************)
EXTENDS Integers, Sequences, FiniteSets, TLC

(***************************************************************************)
(* Bounds of the model.                                                    *)
(***************************************************************************)
MaxTotal == 3
MaxLimit == 2
MaxRetriesBound == 2
MaxStatusLen == 5
MaxRecords == 2
MaxRaces == 2
MaxResults == 2
NumYears == 2
\* all_items and the request counter are recorded up to these sizes, which
\* exceed what any truthful run needs
ItemCap == MaxTotal + 2
ReqCap == MaxTotal + 2

(***************************************************************************)
(* Shared helpers for Python values.                                       *)
(***************************************************************************)
NoneVal == "<None>"
EmptyDict == [k \in {} |-> 0]
DictGet(d, k, default) == IF k \in DOMAIN d THEN d[k] ELSE default
Min(a, b) == IF a <= b THEN a ELSE b
Max(a, b) == IF a >= b THEN a ELSE b
CeilDiv(a, b) == (a + b - 1) \div b

\* the numbers whose decimal strings the model uses: counts and offsets,
\* offsets past the requested page size of 1000, and years
DecimalRange == (0..31) \cup (1000..1031) \cup (2000..2031)
IsPadded(s) == \E n \in 0..9 : "0" \o ToString(n) = s
IsDecimal(s) == IsPadded(s) \/ \E n \in DecimalRange : ToString(n) = s
\* int(s) for a decimal string, with or without a leading zero
ParseInt(s) ==
    IF IsPadded(s)
    THEN CHOOSE n \in 0..9 : "0" \o ToString(n) = s
    ELSE CHOOSE n \in DecimalRange : ToString(n) = s
\* Python's "x or default" for a string x: the empty string is falsy
OrDefault(x, default) == IF x = "" THEN default ELSE x

VARIABLES
    max_retries,    \* ErgastConfig.max_retries of the client
    srv,            \* the server the client talks to: mode, total, limit
    fa_pc,          \* position in fetch_all / _get_json
    offset,         \* fetch_all: offset of the next page
    all_items,      \* fetch_all: items collected (first ItemCap items recorded)
    params,         \* parameters of the request in flight
    payload,        \* payload returned by _get_json
    attempt,        \* _get_json: loop variable
    last_err,       \* _get_json: last_err
    error,          \* exception that left fetch_all, or NoError
    gets,           \* number of session.get calls made by the current _get_json
    gj_last,        \* error raised by the most recent failed session.get
    requests        \* number of _get_json calls made by fetch_all (up to ReqCap)

fetchVars == <<max_retries, srv, fa_pc, offset, all_items, params, payload,
               attempt, last_err, error, gets, gj_last, requests>>

VARIABLES
    store,          \* raw snapshot files: key -> exists, complete, payload
    pull_pc,        \* position in pull_raw_ergast.main
    pull_i,         \* index of the key main is working on
    pull_payload,   \* what main fetched for that key and hands to write_json
    fetched         \* per key: what the client returned for it, if it did

pullVars == <<store, pull_pc, pull_i, pull_payload, fetched>>

VARIABLES
    ex_payload,     \* _extract_table: the payload argument
    ex_key,         \* _extract_table: the table_key argument
    ex_out          \* _extract_table: what the call returned or raised

extVars == <<ex_payload, ex_key, ex_out>>

VARIABLES
    status,         \* compute_is_dnf: the status value of a row
    is_dnf          \* compute_is_dnf: the flag computed for it, -1 before

dnfVars == <<status, is_dnf>>

VARIABLES
    raw,            \* data/raw/ergast as the table builders find it: key -> payload
    clean_pc,       \* position in build_clean_tables.main
    tables,         \* the tables main has built so far
    clean_err,      \* exception that left build_clean_tables.main, or NoError
    parquet,        \* data/clean: the tables written, none before
    model_out       \* outcome of build_modeling_table.main

cleanVars == <<raw, clean_pc, tables, clean_err, parquet, model_out>>

vars == <<fetchVars, pullVars, extVars, dnfVars, cleanVars>>

(***************************************************************************)
(* ErgastConfig                                                            *)
(***************************************************************************)
page_limit == 1000
base_url == "https://api.jolpi.ca/ergast/f1"
FetchPath == "2025.json"
Url == base_url \o "/" \o FetchPath

NoError == [type |-> "none"]
NoParams == [limit |-> 0, offset |-> 0]
TransportErrors == {"ConnectionError", "HTTPError"}

(***************************************************************************)
(* The server.  A truthful server echoes the requested offset, reports its *)
(* total and limit, and returns the items offset .. min(offset+limit,      *)
(* total)-1.  An arbitrary server answers anything: any or no total, limit *)
(* and offset, any page.  Items are numbered by their position.            *)
(***************************************************************************)
ItemsFromTo(lo, hi) == [i \in 1..(IF hi > lo THEN hi - lo ELSE 0) |-> lo + i - 1]

Envelope(total, limit, off, races) ==
    [MRData |-> [total |-> ToString(total), limit |-> ToString(limit),
                 offset |-> ToString(off),
                 RaceTable |-> [Races |-> races]]]

TruthfulResponse(reqOffset) ==
    Envelope(srv.total, srv.limit, reqOffset,
             ItemsFromTo(reqOffset, Min(reqOffset + srv.limit, srv.total)))

Restrict(d, keys) == [k \in (DOMAIN d) \cap keys |-> d[k]]

ArbitraryPages == {<< >>, <<0>>}
ArbitraryResponses ==
    { [MRData |-> Restrict(Envelope(t, l, o, p).MRData, ks)] :
        t \in 0..MaxTotal, l \in 0..MaxLimit, o \in 0..MaxTotal,
        p \in ArbitraryPages,
        ks \in { {"total", "limit", "offset", "RaceTable"},
                 {"total", "offset", "RaceTable"},
                 {"total", "limit", "RaceTable"},
                 {"limit", "offset", "RaceTable"},
                 {"total", "limit", "offset"} } }

Responses(reqOffset) ==
    IF srv.mode = "truthful" THEN {TruthfulResponse(reqOffset)}
    ELSE ArbitraryResponses

(***************************************************************************)
(* ErgastClient._get_json                                                  *)
(***************************************************************************)
RetryLoopRunsOnceMore(a) == a <= max_retries + 1
\* for attempt in range(1, max_retries + 1)
RetryLoopRuns(a) == a <= max_retries

\* a session.get that succeeds: return resp.json()
GetJsonAttemptOk ==
    /\ fa_pc = "get_json"
    /\ RetryLoopRuns(attempt)
    /\ \E resp \in Responses(params.offset) : payload' = resp
    /\ gets' = gets + 1
    /\ fa_pc' = "process"
    /\ UNCHANGED <<max_retries, srv, offset, all_items, params, attempt,
                   last_err, error, gj_last, requests>>

\* a session.get or raise_for_status that raises: remember it, sleep, retry
GetJsonAttemptFail ==
    /\ fa_pc = "get_json"
    /\ RetryLoopRuns(attempt)
    /\ \E e \in TransportErrors :
         /\ last_err' = e
         /\ gj_last' = e
    /\ gets' = gets + 1
    /\ attempt' = attempt + 1
    /\ UNCHANGED <<max_retries, srv, fa_pc, offset, all_items, params,
                   payload, error, requests>>

\* the loop is exhausted: raise RuntimeError(... url, params) from last_err;
\* fetch_all does not catch it
GetJsonRaise ==
    /\ fa_pc = "get_json"
    /\ ~RetryLoopRuns(attempt)
    /\ error' = [type |-> "RuntimeError", url |-> Url, params |-> params,
                 cause |-> last_err]
    /\ fa_pc' = "raised"
    /\ UNCHANGED <<max_retries, srv, offset, all_items, params, payload,
                   attempt, last_err, gets, gj_last, requests>>

(***************************************************************************)
(* ErgastClient.fetch_all                                                  *)
(***************************************************************************)
\* params = {"limit": limit, "offset": offset}; payload = self._get_json(...)
FetchAllRequest ==
    /\ fa_pc = "loop"
    /\ params' = [limit |-> page_limit, offset |-> offset]
    /\ attempt' = 1
    /\ last_err' = NoneVal
    /\ gets' = 0
    /\ gj_last' = NoneVal
    /\ requests' = Min(requests + 1, ReqCap)
    /\ fa_pc' = "get_json"
    /\ UNCHANGED <<max_retries, srv, offset, all_items, payload, error>>

PageTotal(mrdata) == ParseInt(OrDefault(DictGet(mrdata, "total", "0"), "0"))
ReturnedLimit(mrdata, limit) ==
    ParseInt(OrDefault(DictGet(mrdata, "limit", ToString(limit)), ToString(limit)))
ReturnedOffset(mrdata, off) ==
    ParseInt(OrDefault(DictGet(mrdata, "offset", ToString(off)), ToString(off)))
PageRaces(mrdata) == DictGet(DictGet(mrdata, "RaceTable", EmptyDict), "Races", << >>)

NextOffsetByRequestedLimit(returned_offset, returned_limit) ==
    returned_offset + page_limit
\* offset = returned_offset + returned_limit
NextOffset(returned_offset, returned_limit) == returned_offset + returned_limit

\* if offset >= total: break
PaginationDone(newOffset, total) == newOffset >= total

\* all_items.extend(races); the model records the first ItemCap items
Extend(items, races) == SubSeq(items \o races, 1, Min(Len(items) + Len(races), ItemCap))

FetchAllProcess ==
    /\ fa_pc = "process"
    /\ LET mrdata == DictGet(payload, "MRData", EmptyDict)
           total == PageTotal(mrdata)
           returned_limit == ReturnedLimit(mrdata, params.limit)
           returned_offset == ReturnedOffset(mrdata, offset)
           races == PageRaces(mrdata)
           newOffset == NextOffset(returned_offset, returned_limit)
       IN IF Len(races) > 0
          THEN /\ all_items' = Extend(all_items, races)
               /\ offset' = newOffset
               /\ fa_pc' = IF PaginationDone(newOffset, total)
                           THEN "returned" ELSE "loop"
          ELSE /\ fa_pc' = "returned"
               /\ UNCHANGED <<all_items, offset>>
    /\ UNCHANGED <<max_retries, srv, params, payload, attempt, last_err,
                   error, gets, gj_last, requests>>

(***************************************************************************)
(* clean/build_clean_tables.py: _extract_table                             *)
(***************************************************************************)
Ok(v) == [ok |-> TRUE, value |-> v]
Raise(e, info) == [ok |-> FALSE, err |-> e, info |-> info]

Containers == <<"RaceTable", "DriverTable", "ConstructorTable", "CircuitTable">>

ExtractTable(pl, table_key) ==
    LET mr == DictGet(pl, "MRData", EmptyDict)
        hits == {i \in 1..Len(Containers) :
                    table_key \in DOMAIN DictGet(mr, Containers[i], EmptyDict)}
        first == CHOOSE i \in hits : \A j \in hits : i <= j
    IN IF hits # {}
       THEN Ok(mr[Containers[first]][table_key])
       ELSE IF table_key = "Races"
            THEN Ok(DictGet(DictGet(mr, "RaceTable", EmptyDict), "Races", << >>))
            ELSE Raise("KeyError", DOMAIN mr)

(***************************************************************************)
(* ingest/pull_raw_ergast.py                                               *)
(***************************************************************************)
YearStop == 2026
Years == (YearStop - NumYears)..(YearStop - 1)
YearSeq == [i \in 1..NumYears |-> YearStop - NumYears + i - 1]

DimNames == <<"drivers", "constructors", "circuits">>
RacesKey(year) == "races_" \o ToString(year)
ResultsKey(year) == "results_" \o ToString(year)

\* the order in which main visits the keys
KeyOrder ==
    DimNames \o
    [i \in 1..(2 * NumYears) |->
        IF i % 2 = 1 THEN RacesKey(YearSeq[(i + 1) \div 2])
        ELSE ResultsKey(YearSeq[i \div 2])]
Keys == {KeyOrder[i] : i \in 1..Len(KeyOrder)}
IsDimKey(k) == k \in {DimNames[i] : i \in 1..Len(DimNames)}
KeyYear(k) == CHOOSE y \in Years : k \in {RacesKey(y), ResultsKey(y)}

DimTableOf(name) ==
    CASE name = "drivers" -> "DriverTable"
      [] name = "constructors" -> "ConstructorTable"
      [] name = "circuits" -> "CircuitTable"
RecordKeyOf(name) ==
    CASE name = "drivers" -> "Drivers"
      [] name = "constructors" -> "Constructors"
      [] name = "circuits" -> "Circuits"
IdFieldOf(name) ==
    CASE name = "drivers" -> "driverId"
      [] name = "constructors" -> "constructorId"
      [] name = "circuits" -> "circuitId"

\* the envelope of a dimension endpoint holding the records with these ids
DimEnvelope(name, ids) ==
    [MRData |-> [x \in {DimTableOf(name)} |->
        [y \in {RecordKeyOf(name)} |->
            [i \in 1..Len(ids) |-> [f \in {IdFieldOf(name)} |-> ids[i]]]]]]

\* a race as the API returns it, with the results nested under it
RaceRecord(season, round, date, results) ==
    [season |-> season, round |-> round, date |-> date, Results |-> results]
ResultRecord(driverId, position, st) ==
    [Driver |-> [driverId |-> driverId], position |-> position, status |-> st]

\* what the client can return to main
FetchRawResults(name) == {DimEnvelope(name, <<"a">>)}
FetchAllResults(year) ==
    { << >>,
      <<RaceRecord(ToString(year), "1", "2025-03-16",
                   <<ResultRecord("a", "1", "Finished")>>)>> }

\* write_json(races_path, {"Races": races, "year": year})
RacesSnapshot(races, year) == [Races |-> races, year |-> year]

NoFile == [exists |-> FALSE, complete |-> FALSE, payload |-> EmptyDict]
NotFetched == [done |-> FALSE, value |-> << >>]
CurKey == KeyOrder[pull_i]

\* every key has been visited: main returns
PullDone ==
    /\ pull_pc = "check"
    /\ pull_i > Len(KeyOrder)
    /\ pull_pc' = "done"
    /\ UNCHANGED <<store, pull_i, pull_payload, fetched>>

\* if out_path.exists(): continue
PullSkip ==
    /\ pull_pc = "check"
    /\ pull_i <= Len(KeyOrder)
    /\ store[CurKey].exists
    /\ pull_i' = pull_i + 1
    /\ UNCHANGED <<store, pull_pc, pull_payload, fetched>>

\* payload = client.fetch_raw(...) / races = client.fetch_all(...)
PullFetchOk ==
    /\ pull_pc = "check"
    /\ pull_i <= Len(KeyOrder)
    /\ ~store[CurKey].exists
    /\ IF IsDimKey(CurKey)
       THEN \E pl \in FetchRawResults(CurKey) :
              /\ pull_payload' = pl
              /\ fetched' = [fetched EXCEPT ![CurKey] = [done |-> TRUE, value |-> << >>]]
       ELSE \E races \in FetchAllResults(KeyYear(CurKey)) :
              /\ pull_payload' = RacesSnapshot(races, KeyYear(CurKey))
              /\ fetched' = [fetched EXCEPT ![CurKey] = [done |-> TRUE, value |-> races]]
    /\ pull_pc' = "open"
    /\ UNCHANGED <<store, pull_i>>

\* the client raises after its retries: main does not catch it
PullFetchError ==
    /\ pull_pc = "check"
    /\ pull_i <= Len(KeyOrder)
    /\ ~store[CurKey].exists
    /\ pull_pc' = "aborted"
    /\ UNCHANGED <<store, pull_i, pull_payload, fetched>>

\* write_json: path.open("w") creates the file, empty
PullWriteOpen ==
    /\ pull_pc = "open"
    /\ store' = [store EXCEPT ![CurKey] =
                    [exists |-> TRUE, complete |-> FALSE, payload |-> EmptyDict]]
    /\ pull_pc' = "dump"
    /\ UNCHANGED <<pull_i, pull_payload, fetched>>

\* write_json: json.dump has written the whole payload and the file is closed
PullWriteDump ==
    /\ pull_pc = "dump"
    /\ store' = [store EXCEPT ![CurKey] =
                    [exists |-> TRUE, complete |-> TRUE, payload |-> pull_payload]]
    /\ pull_pc' = "check"
    /\ pull_i' = pull_i + 1
    /\ UNCHANGED <<pull_payload, fetched>>

\* the process is killed at any point of the run
PullCrash ==
    /\ pull_pc \in {"check", "open", "dump"}
    /\ pull_pc' = "aborted"
    /\ UNCHANGED <<store, pull_i, pull_payload, fetched>>

\* main is run again over the same RAW_DIR
PullRerun ==
    /\ pull_pc \in {"aborted", "done"}
    /\ pull_pc' = "check"
    /\ pull_i' = 1
    /\ pull_payload' = EmptyDict
    /\ UNCHANGED <<store, fetched>>

InitPull ==
    /\ store = [k \in Keys |-> NoFile]
    /\ pull_pc = "check"
    /\ pull_i = 1
    /\ pull_payload = EmptyDict
    /\ fetched = [k \in Keys |-> NotFetched]

IdlePull ==
    /\ store = [k \in {} |-> NoFile]
    /\ pull_pc = "idle"
    /\ pull_i = 0
    /\ pull_payload = EmptyDict
    /\ fetched = [k \in {} |-> NotFetched]

IdleFetch ==
    /\ max_retries = 0
    /\ srv = [mode |-> "none", total |-> 0, limit |-> 1]
    /\ fa_pc = "idle"
    /\ offset = 0
    /\ all_items = << >>
    /\ params = NoParams
    /\ payload = EmptyDict
    /\ attempt = 1
    /\ last_err = NoneVal
    /\ error = NoError
    /\ gets = 0
    /\ gj_last = NoneVal
    /\ requests = 0

NextPull ==
    \/ PullDone /\ UNCHANGED <<fetchVars, extVars, dnfVars, cleanVars>>
    \/ PullSkip /\ UNCHANGED <<fetchVars, extVars, dnfVars, cleanVars>>
    \/ PullFetchOk /\ UNCHANGED <<fetchVars, extVars, dnfVars, cleanVars>>
    \/ PullFetchError /\ UNCHANGED <<fetchVars, extVars, dnfVars, cleanVars>>
    \/ PullWriteOpen /\ UNCHANGED <<fetchVars, extVars, dnfVars, cleanVars>>
    \/ PullWriteDump /\ UNCHANGED <<fetchVars, extVars, dnfVars, cleanVars>>
    \/ PullCrash /\ UNCHANGED <<fetchVars, extVars, dnfVars, cleanVars>>
    \/ PullRerun /\ UNCHANGED <<fetchVars, extVars, dnfVars, cleanVars>>

\* C4: after a run of the raw pull has ended, normally or aborted by a
\* FetchError or a crash, a snapshot key exists only if its fetch completed
\* and its complete payload was written.
C4_ExistsOnlyIfComplete ==
    pull_pc \in {"done", "aborted"} =>
        \A k \in Keys :
            store[k].exists => fetched[k].done /\ store[k].complete

\* C10: the snapshot written under races_<year> / results_<year> is a payload
\* from which the extraction of "Races" yields the list fetch_all returned.
C10_SnapshotRoundTrip ==
    \A y \in Years : \A k \in {RacesKey(y), ResultsKey(y)} :
        store[k].complete =>
            ExtractTable(store[k].payload, "Races") = Ok(fetched[k].value)

(***************************************************************************)
(* _extract_table applied to payloads of every shape                       *)
(***************************************************************************)
TableKeys == {"Races", "Drivers", "Constructors", "Circuits"}
ContainerNames == {Containers[i] : i \in 1..Len(Containers)}

\* what a payload can hold under one container name: the empty dict, or one
\* record-list key with no record or with a record naming the container
ContainerContents(c) ==
    {EmptyDict}
    \cup { [k \in {key} |-> << >>] : key \in TableKeys }
    \cup { [k \in {key} |-> <<[from |-> c]>>] : key \in TableKeys }

MRDataShapes ==
    UNION { [cs -> UNION {ContainerContents(c) : c \in ContainerNames}] :
                cs \in SUBSET ContainerNames }
ProperShape(mr) == \A c \in DOMAIN mr : mr[c] \in ContainerContents(c)

ExtractPayloads ==
    { [MRData |-> mr] : mr \in {m \in MRDataShapes : ProperShape(m)} }
    \cup { RacesSnapshot(<<[from |-> "fetch_all"]>>, y) : y \in Years }
    \cup { EmptyDict }

NotCalled == [called |-> FALSE]

ExtractTableCall ==
    /\ ex_out = NotCalled
    /\ ex_out' = [called |-> TRUE, result |-> ExtractTable(ex_payload, ex_key)]
    /\ UNCHANGED <<ex_payload, ex_key>>

InitExtract ==
    /\ ex_payload \in ExtractPayloads
    /\ ex_key \in TableKeys
    /\ ex_out = NotCalled

IdleExtract ==
    /\ ex_payload = EmptyDict
    /\ ex_key = "Races"
    /\ ex_out = NotCalled

NextExtract ==
    \/ ExtractTableCall /\ UNCHANGED <<fetchVars, pullVars, dnfVars, cleanVars>>

\* the containers of the payload that hold the requested key
Holders(pl, key) ==
    LET mr == DictGet(pl, "MRData", EmptyDict)
    IN {i \in 1..Len(Containers) :
            /\ Containers[i] \in DOMAIN mr
            /\ key \in DOMAIN mr[Containers[i]]}

\* C5: extraction returns the record list of the first known container that
\* holds the key, and fails with a KeyError (the SchemaError) naming the
\* payload's keys when no container holds it; it never returns a default.
C5_ExtractFailsFast ==
    ex_out.called =>
        LET hs == Holders(ex_payload, ex_key)
        IN /\ hs # {} =>
                \E i \in hs :
                    /\ \A j \in hs : i <= j
                    /\ ex_out.result = Ok(ex_payload.MRData[Containers[i]][ex_key])
           /\ hs = {} =>
                /\ ~ex_out.result.ok
                /\ ex_out.result.err = "KeyError"

(***************************************************************************)
(* clean/build_modeling_table.py: compute_is_dnf                           *)
(*                                                                         *)
(* A status is null or a string.  A string is a sequence over an alphabet  *)
(* of characters in which a digit is "1", whitespace is " ", the words     *)
(* "Lap" and "Finished" are single symbols and "x" is any other character. *)
(***************************************************************************)
StatusAlphabet == {"+", "1", " ", "Lap", "s", "Finished", "x"}
IsDigit(c) == c = "1"
IsSpace(c) == c = " "

StatusStrings == UNION { [1..n -> StatusAlphabet] : n \in 0..MaxStatusLen }
StatusValues ==
    { [null |-> FALSE, chars |-> cs] : cs \in StatusStrings }
    \cup { [null |-> TRUE, chars |-> << >>] }

\* status.fillna("")
FillNa(st) == IF st.null THEN << >> ELSE st.chars

RECURSIVE LStrip(_)
LStrip(cs) == IF cs # << >> /\ IsSpace(Head(cs)) THEN LStrip(Tail(cs)) ELSE cs
RECURSIVE RStrip(_)
RStrip(cs) ==
    IF cs # << >> /\ IsSpace(cs[Len(cs)])
    THEN RStrip(SubSeq(cs, 1, Len(cs) - 1)) ELSE cs
StripNothing(cs) == cs
\* .str.strip()
Strip(cs) == RStrip(LStrip(cs))

\* s.str.match(r"^\+\d+\s+Lap(s)?$")
MatchLappedFinish(cs) ==
    \E d \in 1..Len(cs) : \E w \in 1..Len(cs) :
        /\ Len(cs) \in {1 + d + w + 1, 1 + d + w + 2}
        /\ cs[1] = "+"
        /\ \A i \in 2..(1 + d) : IsDigit(cs[i])
        /\ \A i \in (2 + d)..(1 + d + w) : IsSpace(cs[i])
        /\ cs[2 + d + w] = "Lap"
        /\ Len(cs) = 1 + d + w + 2 => cs[Len(cs)] = "s"

ComputeIsDnf(st) ==
    LET s == Strip(FillNa(st))
        finished == s = <<"Finished">>
        lapped_finish == MatchLappedFinish(s)
    IN IF ~(finished \/ lapped_finish) THEN 1 ELSE 0

ComputeIsDnfCall ==
    /\ is_dnf = -1
    /\ is_dnf' = ComputeIsDnf(status)
    /\ UNCHANGED status

InitDnf ==
    /\ status \in StatusValues
    /\ is_dnf = -1

IdleDnf ==
    /\ status = [null |-> TRUE, chars |-> << >>]
    /\ is_dnf = -2

NextDnf ==
    \/ ComputeIsDnfCall /\ UNCHANGED <<fetchVars, pullVars, extVars, cleanVars>>

\* the status with null read as empty and the surrounding whitespace removed
Normalized(st) ==
    LET cs == IF st.null THEN << >> ELSE st.chars
        inked == {i \in 1..Len(cs) : cs[i] # " "}
    IN IF inked = {} THEN << >>
       ELSE SubSeq(cs, CHOOSE i \in inked : \A k \in inked : i <= k,
                       CHOOSE j \in inked : \A k \in inked : k <= j)

\* "+<N> Lap": a plus, n digits, w blanks, the word Lap
LappedForm(n, w) == <<"+">> \o [i \in 1..n |-> "1"] \o [i \in 1..w |-> " "] \o <<"Lap">>

\* cs is "+<N> Lap" or "+<N> Laps" with one of the given numbers of blanks
IsLapped(cs, blanks) ==
    /\ Len(cs) >= 4
    /\ cs[1] = "+"
    /\ \E n \in 1..Len(cs) : \E w \in blanks :
          cs \in {LappedForm(n, w), LappedForm(n, w) \o <<"s">>}

\* C9 (as stated): NOT-DNF exactly when the normalized status is "Finished"
\* or "+<N> Lap" / "+<N> Laps" with N one or more digits and a single blank.
C9_NotDnfIffFinishedOrLapped ==
    is_dnf \in {0, 1} =>
        LET norm == Normalized(status)
        IN is_dnf = 0 <=> (norm = <<"Finished">> \/ IsLapped(norm, {1}))

\* C9 (amended): NOT-DNF exactly when the normalized status is "Finished" or
\* a plus, one or more digits, one or more whitespace characters, and "Lap"
\* or "Laps".
C9_NotDnfIffFinishedOrLappedAnyBlanks ==
    is_dnf \in {0, 1} =>
        LET norm == Normalized(status)
        IN is_dnf = 0 <=> (norm = <<"Finished">> \/ IsLapped(norm, 1..Len(norm)))

C9_Witness ==
    /\ status = [null |-> FALSE, chars |-> <<" ", "+", "1", " ", "Lap">>]
    /\ is_dnf = 0

(***************************************************************************)
(* Initial states and specifications of the fetch client                   *)
(***************************************************************************)
Servers ==
    { [mode |-> "truthful", total |-> t, limit |-> l] :
        t \in 0..MaxTotal, l \in 1..MaxLimit }
    \cup { [mode |-> "arbitrary", total |-> 0, limit |-> 1] }

InitFetch ==
    /\ max_retries \in 0..MaxRetriesBound
    /\ srv \in Servers
    /\ fa_pc = "loop"
    /\ offset = 0
    /\ all_items = << >>
    /\ params = NoParams
    /\ payload = EmptyDict
    /\ attempt = 1
    /\ last_err = NoneVal
    /\ error = NoError
    /\ gets = 0
    /\ gj_last = NoneVal
    /\ requests = 0

NextFetch ==
    \/ FetchAllRequest /\ UNCHANGED <<pullVars, extVars, dnfVars, cleanVars>>
    \/ GetJsonAttemptOk /\ UNCHANGED <<pullVars, extVars, dnfVars, cleanVars>>
    \/ GetJsonAttemptFail /\ UNCHANGED <<pullVars, extVars, dnfVars, cleanVars>>
    \/ GetJsonRaise /\ UNCHANGED <<pullVars, extVars, dnfVars, cleanVars>>
    \/ FetchAllProcess /\ UNCHANGED <<pullVars, extVars, dnfVars, cleanVars>>

(***************************************************************************)
(* clean/build_clean_tables.py: the table builders                         *)
(*                                                                         *)
(* A table is the sequence of its rows.  Of each table the model keeps the *)
(* key columns and the columns the modeling table is derived from.         *)
(***************************************************************************)
NAInt == -1          \* pd.NA in a nullable Int64 column
NaT == "NaT"         \* a date that did not parse
GoodDate == "2025-03-16"

\* pd.to_numeric(x, errors="coerce").astype("Int64")
ToNumeric(x) == IF IsDecimal(x) THEN ParseInt(x) ELSE NAInt
\* Int64 column .astype(str)
Int64Str(n) == IF n = NAInt THEN "<NA>" ELSE ToString(n)
\* object column .astype(str)
AsStr(x) == IF x = NoneVal THEN "None" ELSE x
\* pd.to_datetime(x, errors="coerce").dt.date
ToDate(x) == IF x = GoodDate THEN x ELSE NaT

RECURSIVE Flatten(_)
Flatten(ss) == IF ss = << >> THEN << >> ELSE Head(ss) \o Flatten(Tail(ss))

NeverDuplicated(keys) == FALSE
\* Series.duplicated().any() / DataFrame.duplicated(subset=...).any()
Duplicated(keys) == \E i \in 1..Len(keys) : \E j \in 1..Len(keys) : i < j /\ keys[i] = keys[j]

IdColOf(name) ==
    CASE name = "drivers" -> "driver_id"
      [] name = "constructors" -> "constructor_id"
      [] name = "circuits" -> "circuit_id"

\* the body the three dimension builders share
BuildDim(store_, name) ==
    LET ex == ExtractTable(store_[name], RecordKeyOf(name))
    IN IF ~ex.ok THEN ex
       ELSE IF ex.value = << >> THEN Raise("KeyError", {IdColOf(name)})
       ELSE LET rows == [i \in 1..Len(ex.value) |->
                           [c \in {IdColOf(name)} |->
                               AsStr(DictGet(ex.value[i], IdFieldOf(name), NoneVal))]]
                ids == [i \in 1..Len(rows) |-> rows[i][IdColOf(name)]]
            IN IF Duplicated(ids) THEN Raise("ValueError", {IdColOf(name)})
               ELSE Ok(rows)

build_dim_drivers(store_) == BuildDim(store_, "drivers")
build_dim_constructors(store_) == BuildDim(store_, "constructors")
build_dim_circuits(store_) == BuildDim(store_, "circuits")

\* for year in range(2010, 2026): races = _extract_table(read_json(...), "Races")
ExtractedRaces(store_, keys) ==
    Flatten([i \in 1..Len(keys) |-> ExtractTable(store_[keys[i]], "Races").value])

build_fct_races(store_) ==
    LET all_races == ExtractedRaces(store_, [i \in 1..NumYears |-> RacesKey(YearSeq[i])])
        rows == [i \in 1..Len(all_races) |->
                    LET year == ToNumeric(all_races[i].season)
                        round == ToNumeric(all_races[i].round)
                    IN [race_id |-> Int64Str(year) \o "_" \o Int64Str(round),
                        year |-> year,
                        round |-> round,
                        race_date |-> ToDate(all_races[i].date)]]
        ids == [i \in 1..Len(rows) |-> rows[i].race_id]
    IN IF all_races = << >> THEN Raise("KeyError", {"season"})
       ELSE IF Duplicated(ids) THEN Raise("ValueError", {"race_id"})
       ELSE IF \E i \in 1..Len(rows) : rows[i].race_date = NaT
            THEN Raise("ValueError", {"race_date"})
       ELSE Ok(rows)

\* the rows one race of a results payload contributes
ResultRowsOfRace(race) ==
    LET results == DictGet(race, "Results", << >>)
    IN [i \in 1..Len(results) |->
          [race_id |-> race.season \o "_" \o race.round,
           year |-> ParseInt(race.season),
           round |-> ParseInt(race.round),
           driver_id |-> AsStr(DictGet(DictGet(results[i], "Driver", EmptyDict),
                                       "driverId", NoneVal)),
           position |-> ToNumeric(DictGet(results[i], "position", NoneVal)),
           status |-> DictGet(results[i], "status", NoneVal)]]

build_fct_results(store_) ==
    LET races == ExtractedRaces(store_, [i \in 1..NumYears |-> ResultsKey(YearSeq[i])])
        rows == Flatten([i \in 1..Len(races) |-> ResultRowsOfRace(races[i])])
        keys == [i \in 1..Len(rows) |-> <<rows[i].race_id, rows[i].driver_id>>]
    IN IF rows = << >> THEN Raise("KeyError", {"race_id"})
       ELSE IF Duplicated(keys) THEN Raise("ValueError", {"race_id", "driver_id"})
       ELSE Ok(rows)

\* the columns build_fct_results returns
ResultColumns ==
    {"race_id", "year", "round", "driver_id", "constructor_id", "grid",
     "position", "position_order", "points", "status", "laps", "time"}

(***************************************************************************)
(* build_clean_tables.main: the five builders in turn, then the writes     *)
(***************************************************************************)
CleanStep(name, result, next) ==
    /\ clean_pc = name
    /\ IF result.ok
       THEN /\ tables' = tables @@ (name :> result.value)
            /\ clean_pc' = next
            /\ UNCHANGED clean_err
       ELSE /\ clean_pc' = "failed"
            /\ clean_err' = [type |-> result.err, at |-> name]
            /\ UNCHANGED tables
    /\ UNCHANGED <<raw, parquet, model_out>>

BuildDimDrivers == CleanStep("drivers", build_dim_drivers(raw), "constructors")
BuildDimConstructors == CleanStep("constructors", build_dim_constructors(raw), "circuits")
BuildDimCircuits == CleanStep("circuits", build_dim_circuits(raw), "races")
BuildFctRaces == CleanStep("races", build_fct_races(raw), "results")
BuildFctResults == CleanStep("results", build_fct_results(raw), "write")

\* the five to_parquet calls
CleanWrite ==
    /\ clean_pc = "write"
    /\ parquet' = tables
    /\ clean_pc' = "written"
    /\ UNCHANGED <<raw, tables, clean_err, model_out>>

(***************************************************************************)
(* clean/build_modeling_table.py: main                                     *)
(***************************************************************************)
TestYear == 2025

\* results.merge(races[...], on="race_id", how="left"): the race_date a result
\* row gets
JoinedRaceDate(races, row) ==
    IF \E j \in 1..Len(races) : races[j].race_id = row.race_id
    THEN LET j == CHOOSE j \in 1..Len(races) : races[j].race_id = row.race_id
         IN races[j].race_date
    ELSE NaT

\* (df["finish_position"].fillna(999) <= 3).astype(int)
IsPodium(finish_position) ==
    IF (IF finish_position = NAInt THEN 999 ELSE finish_position) <= 3 THEN 1 ELSE 0

\* df["split"] = "train"; df.loc[df["year"] == 2025, "split"] = "test"
SplitOf(year) == IF year = TestYear THEN "test" ELSE "train"

\* the status strings of the result records, as sequences of characters
StatusValue(st) ==
    CASE st = NoneVal -> [null |-> TRUE, chars |-> << >>]
      [] st = "Finished" -> [null |-> FALSE, chars |-> <<"Finished">>]
      [] st = "+1 Lap" -> [null |-> FALSE, chars |-> <<"+", "1", " ", "Lap">>]
      [] OTHER -> [null |-> FALSE, chars |-> <<"x">>]

BuildModelingTable(races, results) ==
    LET dates == [i \in 1..Len(results) |-> JoinedRaceDate(races, results[i])]
    IN IF Duplicated([j \in 1..Len(races) |-> races[j].race_id])
       THEN Raise("MergeError", {"race_id"})
       ELSE IF \E i \in 1..Len(results) : dates[i] = NaT
       THEN Raise("ValueError", {"race_date"})
       ELSE IF "finish_position" \notin ResultColumns
       THEN Raise("KeyError", {"finish_position"})
       ELSE LET out == [i \in 1..Len(results) |->
                          [race_id |-> results[i].race_id,
                           year |-> results[i].year,
                           round |-> results[i].round,
                           race_date |-> dates[i],
                           driver_id |-> results[i].driver_id,
                           finish_position |-> results[i].finish_position,
                           status |-> results[i].status,
                           is_dnf |-> ComputeIsDnf(StatusValue(results[i].status)),
                           is_podium |-> IsPodium(results[i].finish_position),
                           split |-> SplitOf(results[i].year)]]
            IN IF Duplicated([i \in 1..Len(out) |-> <<out[i].race_id, out[i].driver_id>>])
               THEN Raise("ValueError", {"race_id", "driver_id"})
               ELSE Ok(out)

NotRun == [ran |-> FALSE, ok |-> FALSE, rows |-> << >>, err |-> "none"]

ModelingMain ==
    /\ clean_pc = "written"
    /\ ~model_out.ran
    /\ LET res == BuildModelingTable(parquet["races"], parquet["results"])
       IN model_out' = IF res.ok
                       THEN [ran |-> TRUE, ok |-> TRUE, rows |-> res.value, err |-> "none"]
                       ELSE [ran |-> TRUE, ok |-> FALSE, rows |-> << >>, err |-> res.err]
    /\ UNCHANGED <<raw, clean_pc, tables, clean_err, parquet>>

(***************************************************************************)
(* The raw snapshots the builders are run on: every snapshot is the one a  *)
(* healthy pull of a healthy API leaves, except one, which is any payload  *)
(* of the families below.                                                  *)
(***************************************************************************)
SeqsUpTo(S, n) == UNION { [1..k -> S] : k \in 0..n }

RaceEnvelope(races) == [MRData |-> [RaceTable |-> [Races |-> races]]]

ResultPool ==
    { ResultRecord("a", "1", "Finished"),
      ResultRecord("b", "4", "+1 Lap"),
      ResultRecord("a", NoneVal, "Accident") }

CanonicalRaw ==
    [k \in Keys |->
        IF IsDimKey(k) THEN DimEnvelope(k, <<"a", "b">>)
        ELSE IF k = RacesKey(KeyYear(k))
        THEN RaceEnvelope(<<RaceRecord(ToString(KeyYear(k)), "1", GoodDate, << >>)>>)
        ELSE RaceEnvelope(<<RaceRecord(ToString(KeyYear(k)), "1", GoodDate,
                            <<ResultRecord("a", "1", "Finished"),
                              ResultRecord("b", "4", "+1 Lap")>>)>>)]

RaceListVariants(y) ==
    SeqsUpTo({ RaceRecord(ToString(y), rnd, d, << >>) :
                 rnd \in {"1", "01", "2"}, d \in {GoodDate, NoneVal} }, MaxRaces)

\* up to MaxRaces races of either round spelling, holding up to MaxResults
\* result records between them
ResultListVariants(y) ==
    UNION { { [j \in 1..k |->
                RaceRecord(ToString(y), rounds[j], GoodDate,
                    LET mine == SelectSeq(alloc, LAMBDA e : e[1] = j)
                    IN [n \in 1..Len(mine) |-> mine[n][2]])] :
              rounds \in [1..k -> {"1", "01"}],
              alloc \in SeqsUpTo((1..k) \X ResultPool, MaxResults) } :
            k \in 0..MaxRaces }

PayloadVariants(k) ==
    IF IsDimKey(k)
    THEN {EmptyDict, [MRData |-> EmptyDict]}
         \cup { DimEnvelope(k, ids) : ids \in SeqsUpTo({"a", "b", NoneVal}, MaxRecords) }
    ELSE { RacesSnapshot(races, KeyYear(k)) : races \in FetchAllResults(KeyYear(k)) }
         \cup { RaceEnvelope(races) :
                  races \in IF k = RacesKey(KeyYear(k))
                            THEN RaceListVariants(KeyYear(k))
                            ELSE ResultListVariants(KeyYear(k)) }

InitClean ==
    /\ LET canonical == CanonicalRaw
       IN raw \in { [canonical EXCEPT ![kp[1]] = kp[2]] :
                       kp \in UNION { {k} \X PayloadVariants(k) : k \in Keys } }
    /\ clean_pc = "drivers"
    /\ tables = EmptyDict
    /\ clean_err = NoError
    /\ parquet = EmptyDict
    /\ model_out = NotRun

IdleClean ==
    /\ raw = EmptyDict
    /\ clean_pc = "idle"
    /\ tables = EmptyDict
    /\ clean_err = NoError
    /\ parquet = EmptyDict
    /\ model_out = NotRun

NextClean ==
    \/ BuildDimDrivers /\ UNCHANGED <<fetchVars, pullVars, extVars, dnfVars>>
    \/ BuildDimConstructors /\ UNCHANGED <<fetchVars, pullVars, extVars, dnfVars>>
    \/ BuildDimCircuits /\ UNCHANGED <<fetchVars, pullVars, extVars, dnfVars>>
    \/ BuildFctRaces /\ UNCHANGED <<fetchVars, pullVars, extVars, dnfVars>>
    \/ BuildFctResults /\ UNCHANGED <<fetchVars, pullVars, extVars, dnfVars>>
    \/ CleanWrite /\ UNCHANGED <<fetchVars, pullVars, extVars, dnfVars>>
    \/ ModelingMain /\ UNCHANGED <<fetchVars, pullVars, extVars, dnfVars>>

(***************************************************************************)
(* Specifications                                                          *)
(***************************************************************************)
StartFetch == InitFetch /\ IdlePull /\ IdleExtract /\ IdleDnf /\ IdleClean
SpecFetch == StartFetch /\ [][NextFetch]_vars

\* the client keeps issuing the request in flight and processing the answer
FairSpecFetch == SpecFetch /\ WF_vars(NextFetch)

StartPull == InitPull /\ IdleFetch /\ IdleExtract /\ IdleDnf /\ IdleClean
SpecPull == StartPull /\ [][NextPull]_vars

StartExtract == InitExtract /\ IdleFetch /\ IdlePull /\ IdleDnf /\ IdleClean
SpecExtract == StartExtract /\ [][NextExtract]_vars

StartClean == InitClean /\ IdleFetch /\ IdlePull /\ IdleExtract /\ IdleDnf
SpecClean == StartClean /\ [][NextClean]_vars

StartDnf == InitDnf /\ IdleFetch /\ IdlePull /\ IdleExtract /\ IdleClean
SpecDnf == StartDnf /\ [][NextDnf]_vars

(***************************************************************************)
(* Properties of the table builders and the modeling table                 *)
(***************************************************************************)
\* the records a builder is given: the record list at the API's path of
\* each of its snapshots
DimInput(name) ==
    DictGet(DictGet(DictGet(raw[name], "MRData", EmptyDict),
                    DimTableOf(name), EmptyDict), RecordKeyOf(name), << >>)
RacesAt(k) ==
    DictGet(DictGet(DictGet(raw[k], "MRData", EmptyDict),
                    "RaceTable", EmptyDict), "Races", << >>)
RaceInput == Flatten([i \in 1..NumYears |-> RacesAt(RacesKey(YearSeq[i]))])
ResultInput ==
    Flatten([i \in 1..NumYears |->
        Flatten([j \in 1..Len(RacesAt(ResultsKey(YearSeq[i]))) |->
            LET race == RacesAt(ResultsKey(YearSeq[i]))[j]
            IN [n \in 1..Len(race.Results) |->
                  [season |-> race.season, round |-> race.round,
                   driverId |-> race.Results[n].Driver.driverId]]])])

InputOf(name) ==
    CASE name = "races" -> RaceInput
      [] name = "results" -> ResultInput
      [] OTHER -> DimInput(name)

\* the primary key of each row of a built table
PrimaryKeys(name) ==
    [i \in 1..Len(tables[name]) |->
        CASE name = "races" -> <<tables[name][i].race_id>>
          [] name = "results" -> <<tables[name][i].race_id, tables[name][i].driver_id>>
          [] OTHER -> <<tables[name][i][IdColOf(name)]>>]

AllDistinct(keys) ==
    \A i \in 1..Len(keys) : \A j \in 1..Len(keys) : i # j => keys[i] # keys[j]

\* two result records of the input share (race_id, driver_id)
ResultInputHasDuplicate ==
    LET inp == ResultInput
    IN \E i \in 1..Len(inp) : \E j \in 1..Len(inp) : i # j /\ inp[i] = inp[j]

\* a built table has one row per input record and a unique primary key
BuiltTablesSound ==
    \A name \in DOMAIN tables :
        LET keys == PrimaryKeys(name)
        IN /\ Len(tables[name]) = Len(InputOf(name))
           /\ AllDistinct(keys)

\* the Result builder does not return a table for input with a duplicate key
DuplicateResultsRejected ==
    ResultInputHasDuplicate =>
        /\ "results" \notin DOMAIN tables
        /\ clean_pc = "failed" /\ clean_err.at = "results" =>
              clean_err.type = "ValueError"

LatestSeason ==
    CHOOSE y \in {parquet["results"][i].year : i \in 1..Len(parquet["results"])} :
        \A i \in 1..Len(parquet["results"]) : parquet["results"][i].year <= y

\* C7: once the modeling table builder has run, every row of the latest
\* ingested season is tagged "test", every other row "train", and the test
\* split is not empty when the Result table has rows.
C7_LatestSeasonIsTest ==
    model_out.ran =>
        /\ \A i \in 1..Len(model_out.rows) :
              model_out.rows[i].split =
                  IF model_out.rows[i].year = LatestSeason THEN "test" ELSE "train"
        /\ \E i \in 1..Len(model_out.rows) : model_out.rows[i].split = "test"

\* C8: once the modeling table builder has run, every Result row whose
\* race_id resolves to a Race has its ModelingRow, with the Result's finish
\* position and is_podium set exactly for the positions 1, 2 and 3.
C8_PodiumFromFinishPosition ==
    model_out.ran =>
        \A i \in 1..Len(parquet["results"]) :
            LET r == parquet["results"][i]
            IN (\E j \in 1..Len(parquet["races"]) : parquet["races"][j].race_id = r.race_id) =>
                 \E n \in 1..Len(model_out.rows) :
                    LET m == model_out.rows[n]
                    IN /\ m.race_id = r.race_id
                       /\ m.driver_id = r.driver_id
                       /\ m.finish_position = r.position
                       /\ m.is_podium = (IF r.position \in {1, 2, 3} THEN 1 ELSE 0)

(***************************************************************************)
(* Properties of the fetch client                                          *)
(***************************************************************************)
TruthfulReturn == fa_pc = "returned" /\ srv.mode = "truthful"

C2_EventuallyReturns == <>(fa_pc \in {"returned", "raised"})

\* against a truthful server the pagination does stop
TruthfulEventuallyReturns ==
    (srv.mode = "truthful") => <>(fa_pc \in {"returned", "raised"})

\* C3: a _get_json whose every attempt fails makes exactly max_retries
\* attempts and raises an error that wraps the last attempt's error and
\* carries the url and the parameters; a _get_json whose attempt k is the
\* first to succeed makes exactly k attempts and returns that payload.
C3_RetryCountExact ==
    /\ fa_pc = "raised" =>
          /\ gets = max_retries
          /\ error.type = "RuntimeError"
          /\ error.cause = gj_last
          /\ error.url = Url
          /\ error.params = [limit |-> page_limit, offset |-> offset]
    /\ fa_pc = "process" =>
          /\ gets = attempt
          /\ gets >= 1
          /\ gets <= max_retries
          /\ payload \in Responses(offset)
          /\ error = NoError

C3_Witness ==
    /\ fa_pc = "raised"
    /\ max_retries = 2
    /\ gets = 2
    /\ last_err = "HTTPError"
    /\ error.cause = "HTTPError"
    /\ requests = 2

====
